---- MODULE Spec2Model ----
(***************************************************************************)
(* sbtc-print: the Cloudflare Worker's prompt parser, mesh builder and     *)
(* order and queue endpoints (src/src/index.ts) over the PRINT_QUEUE       *)
(* key-value namespace, and the print agent (src/print-server/server.ts).  *)
(*                                                                         *)
(* Seven specifications share the variables.  Spec is the job lifecycle    *)
(* under arbitrary requests to the writing endpoints as time passes;       *)
(* QuerySpec adds the two reading endpoints of one order.  RaceSpec is the *)
(* handlers of confirm and complete taken one await at a time.  MeshSpec   *)
(* is one call of generateSTL and one preview of a ShapeConfig.  AgentSpec *)
(* is the print agent polling a queue of paid jobs, with the printer;      *)
(* LiveSpec is the agent with a reachable, ready printer under fair        *)
(* scheduling, and RetrySpec the same with uploads and starts that may     *)
(* fail.                                                                   *)
(*                                                                         *)
(* A job document is a record whose optional fields (paymentTxId, paidAt,  *)
(* printedAt) are absent from its DOMAIN until a handler assigns them, as  *)
(* in the PrintJob interface.  Documents are kept parsed: every field is a *)
(* string, a timestamp or a shape, which JSON.stringify and JSON.parse     *)
(* carry unchanged.                                                        *)
(***************************************************************************)
EXTENDS Integers, Sequences, FiniteSets, TLC

\* Bounds of the model: the number of order ids; the number of requests
\* a run may hold that the lifecycle table does not allow (a create whose id
\* is already in the store, a confirm of a job that is not pending_payment, a
\* printing of a job that is not paid, a complete of a job that is not
\* printing); and the largest dimension, in mm, of a ShapeConfig handed to
\* the mesh builder.
MaxIds == 2
MaxInvalid == 1
MaxDim == 1

\* expirationTtl of a job document written by POST /api/order: 86400 * 7.
ExpirationTtl == 604800

\* const segments and const rings of the branches of generateSTL.
CylinderSegments == 24
SphereSegments == 16
SphereRings == 12
ConeSegments == 24
TorusSegments == 24
TorusRings == 16

\* The 8-character order ids crypto.randomUUID().slice(0, 8) can produce.
Ids == 1..MaxIds
\* Transaction ids a confirm request may carry.
TxIds == {"tx1"}
\* Prompts an order request may carry: "cube 50mm".
Prompts == {<<[w |-> "cube"], [n |-> 50], [w |-> "mm"]>>}
\* The instants the clock goes through: two, so that a timestamp written again
\* later differs from the one written first.
Instants == {0, 1}
\* The executions of pollQueue that can be under way at once: setInterval
\* starts one every POLL_INTERVAL, whether or not the one before has returned.
Polls == {"first", "second"}

VARIABLES
    store,      \* PRINT_QUEUE keys job:<id>: a function from the ids present to job documents
    ttl,        \* expirationTtl of each job:<id> key, 0 when the key never expires
    queue,      \* PRINT_QUEUE key queue, as JSON.parse(get('queue') || '[]') reads it
    now,        \* the clock new Date() reads
    last,       \* the request handled by the last step and its response
    invalid,    \* history: the number of requests so far that the lifecycle table does not allow
    polls,      \* each execution of pollQueue: the await it is at (pc) and its data.jobs[0] (job)
    printer,    \* the printer: print_stats.state and the job whose file it was started on
    descriptor, \* the ShapeConfig handed to generateSTL
    mesh,       \* the outcome of that call of generateSTL
    preview,    \* what POST /api/preview computes of that ShapeConfig
    requests    \* the handlers of the Worker that are at an await, by the :id of their request

\* The variables of the Worker, of the print agent and of the mesh builder
\* and the preview.
cloud == <<store, ttl, queue, now, last, invalid>>
agent == <<polls, printer>>
builder == <<descriptor, mesh, preview>>

vars == <<store, ttl, queue, now, last, invalid, polls, printer, descriptor, mesh, preview, requests>>

\* What a step records of the request it handled: the route (op), the :id
\* parameter (the orderId returned, for create), the HTTP status (code), the
\* jobs array of GET /api/queue, and the length of the queue array the handler
\* read (read).  A step of the clock or of the store's expiry handles no request.
\* A request of the agent to the printer is recorded in the same way: its op
\* is printer (the two status queries), upload or start, and its code is 200
\* when the agent's function has its answer and 0 when the function caught an
\* error or, for upload and start, returned false.
Response(op, id, code, jobs, read) ==
    [op |-> op, id |-> id, code |-> code, jobs |-> jobs, read |-> read]

Has(job, f) == f \in DOMAIN job

\* PRINT_QUEUE.put(key, value): the key now holds value.
Put(kv, key, value) == (key :> value) @@ kv

\* The key is gone from the namespace.
Drop(kv, key) == [k \in DOMAIN kv \ {key} |-> kv[k]]

----------------------------------------------------------------------------
(* Numbers.  A dimension is kept as a fraction <<numerator, denominator>>, in *)
(* lowest terms where the denominator is a power of two.  A coordinate is     *)
(* kept as the sum of products its expression in the source denotes, each a  *)
(* list of trigonometric factors times a fraction: Math.cos and Math.sin are *)
(* not evaluated.                                                            *)

\* The number n.
Whole(n) == <<n, 1>>

\* x / 2
Half(x) == IF x[1] % 2 = 0 THEN <<x[1] \div 2, x[2]>> ELSE <<x[1], 2 * x[2]>>

\* x * 2
Twice(x) == IF x[2] % 2 = 0 THEN <<x[1], x[2] \div 2>> ELSE <<2 * x[1], x[2]>>

\* x || d: 0 is falsy.
Or(x, d) == IF x[1] # 0 THEN x ELSE d

\* The coordinate that is the number x.
Coord(x) == <<[trig |-> <<>>, len |-> x]>>

\* -c
Neg(c) == [k \in DOMAIN c |-> [c[k] EXCEPT !.len = <<0 - @[1], @[2]>>]]

\* Math.cos((i / n) * Math.PI * 2) and Math.sin((i / n) * Math.PI * 2)
Cos(i, n) == <<"cos", i, n>>
Sin(i, n) == <<"sin", i, n>>

\* f * c, for a trigonometric factor f
Times(f, c) == [k \in DOMAIN c |-> [c[k] EXCEPT !.trig = <<f>> \o @]]

\* a + b
Plus(a, b) == a \o b

\* c / x
Over(c, x) == [k \in DOMAIN c |-> [c[k] EXCEPT !.len = <<@[1] * x[2], @[2] * x[1]>>]]

\* [a, b, c] of number literals
Vector(a, b, c) == <<Coord(a), Coord(b), Coord(c)>>

----------------------------------------------------------------------------
(* parsePrompt.  A prompt is kept as the sequence of the lexemes of          *)
(* prompt.toLowerCase(): a number (\d+) is [n |-> its value], a word is      *)
(* [w |-> the word].                                                         *)

Shape(type, dimensions) == [type |-> type, dimensions |-> dimensions, units |-> "mm"]

NumberAt(p, i) == i \in DOMAIN p /\ "n" \in DOMAIN p[i]
WordAt(p, i, words) == i \in DOMAIN p /\ "w" \in DOMAIN p[i] /\ p[i].w \in words

\* The lexemes (?:mm|millimeter)? takes at place i.
UnitAt(p, i) == IF WordAt(p, i, {"mm", "millimeter"}) THEN 1 ELSE 0

\* Where the leftmost match starts, among the lexemes from which the
\* expression matches.
Leftmost(starts) == CHOOSE i \in starts : \A j \in starts : i <= j

\* lower.match(/(\d+)\s*(?:mm|millimeter)?(?:\s*x\s*|\s*by\s*)(\d+)(?:\s*(?:mm|millimeter)?(?:\s*x\s*|\s*by\s*)(\d+))?/):
\* the captures, <<>> for null.
DimMatch(p) ==
    LET second(i) == i + UnitAt(p, i + 1) + 2
        third(i) == second(i) + UnitAt(p, second(i) + 1) + 2
        starts == {i \in DOMAIN p : /\ NumberAt(p, i)
                                    /\ WordAt(p, second(i) - 1, {"x", "by"})
                                    /\ NumberAt(p, second(i))}
        captures(i) ==
            IF WordAt(p, third(i) - 1, {"x", "by"}) /\ NumberAt(p, third(i))
            THEN <<p[i], p[second(i)], p[third(i)]>>
            ELSE <<p[i], p[second(i)]>>
    IN IF starts = {} THEN <<>> ELSE captures(Leftmost(starts))

\* lower.match(/(\d+)\s*(?:mm|millimeter)?\s*radius/): the captures, <<>> for null.
RadiusMatch(p) ==
    LET starts == {i \in DOMAIN p : /\ NumberAt(p, i)
                                    /\ WordAt(p, i + UnitAt(p, i + 1) + 1, {"radius"})}
    IN IF starts = {} THEN <<>> ELSE <<p[Leftmost(starts)]>>

\* lower.match(/(\d+)\s*(?:mm|millimeter)/): the captures, <<>> for null.
SizeMatch(p) ==
    LET starts == {i \in DOMAIN p : NumberAt(p, i) /\ WordAt(p, i + 1, {"mm", "millimeter"})}
    IN IF starts = {} THEN <<>> ELSE <<p[Leftmost(starts)]>>

\* parseInt of a captured number
ParseInt(t) == Whole(t.n)

\* lower.includes(k) for some k of words
Includes(p, words) == \E i \in DOMAIN p : WordAt(p, i, words)

ParsePrompt(prompt) ==
    LET dimMatch == DimMatch(prompt)
        radiusMatch == RadiusMatch(prompt)
        sizeMatch == SizeMatch(prompt)
        width ==
            IF dimMatch # <<>> THEN ParseInt(dimMatch[1])
            ELSE IF radiusMatch # <<>> THEN Twice(ParseInt(radiusMatch[1]))
            ELSE IF sizeMatch # <<>> THEN ParseInt(sizeMatch[1])
            ELSE Whole(50)
        height ==
            IF dimMatch # <<>> THEN ParseInt(dimMatch[2])
            ELSE IF radiusMatch # <<>> \/ sizeMatch # <<>> THEN width
            ELSE Whole(50)
        depth ==
            IF dimMatch # <<>>
            THEN IF Len(dimMatch) = 3 THEN ParseInt(dimMatch[3]) ELSE width
            ELSE IF radiusMatch # <<>> \/ sizeMatch # <<>> THEN width
            ELSE Whole(50)
        radius ==
            IF dimMatch # <<>> THEN Whole(25)
            ELSE IF radiusMatch # <<>> THEN ParseInt(radiusMatch[1])
            ELSE IF sizeMatch # <<>> THEN Half(width)
            ELSE Whole(25)
    IN IF Includes(prompt, {"sphere", "ball", "orb"})
       THEN Shape("sphere", [radius |-> radius])
       ELSE IF Includes(prompt, {"cylinder", "tube", "pipe", "rod"})
       THEN Shape("cylinder", [radius |-> Or(radius, Half(width)), height |-> height])
       ELSE IF Includes(prompt, {"cone", "pyramid"})
       THEN Shape("cone", [radius |-> Or(radius, Half(width)), height |-> height])
       ELSE IF Includes(prompt, {"donut", "torus", "ring"})
       THEN Shape("torus", [radius |-> Or(radius, Whole(30)), width |-> Whole(10)])
       ELSE Shape("cube", [width |-> width, height |-> height, depth |-> depth])

----------------------------------------------------------------------------
(* generateSTL.  The mesh text is kept as the sequence of its lines; a line  *)
(* is its keyword and the vector of numbers that follows it.                 *)

Line(text, at) == [text |-> text, at |-> at]

\* shape.dimensions.<f> || d: an absent dimension is undefined, which is falsy.
Dimension(shape, f, d) ==
    IF f \in DOMAIN shape.dimensions THEN Or(shape.dimensions[f], d) ELSE d

\* Mutant of AddTriangle: the endloop line is lost.
AddTriangle_NoEndloop(triangles, v1, v2, v3, normal) ==
    triangles \o <<Line("facet normal", normal),
                   Line("outer loop", <<>>),
                   Line("vertex", v1),
                   Line("vertex", v2),
                   Line("vertex", v3),
                   Line("endfacet", <<>>)>>

\* addTriangle: the seven lines of one facet are pushed to triangles.
AddTriangle(triangles, v1, v2, v3, normal) ==
    triangles \o <<Line("facet normal", normal),
                   Line("outer loop", <<>>),
                   Line("vertex", v1),
                   Line("vertex", v2),
                   Line("vertex", v3),
                   Line("endloop", <<>>),
                   Line("endfacet", <<>>)>>

\* The cube branch: two triangles for each of the six faces.
Cube(shape, triangles) ==
    LET w == Coord(Half(Dimension(shape, "width", Whole(50))))
        h == Coord(Half(Dimension(shape, "height", Whole(50))))
        d == Coord(Half(Dimension(shape, "depth", Whole(50))))
        down == Vector(Whole(0), Whole(-1), Whole(0))
        up == Vector(Whole(0), Whole(1), Whole(0))
        front == Vector(Whole(0), Whole(0), Whole(1))
        back == Vector(Whole(0), Whole(0), Whole(-1))
        right == Vector(Whole(1), Whole(0), Whole(0))
        left == Vector(Whole(-1), Whole(0), Whole(0))
        t1 == AddTriangle(triangles, <<Neg(w), Neg(h), Neg(d)>>, <<w, Neg(h), Neg(d)>>, <<w, Neg(h), d>>, down)
        t2 == AddTriangle(t1, <<Neg(w), Neg(h), Neg(d)>>, <<w, Neg(h), d>>, <<Neg(w), Neg(h), d>>, down)
        t3 == AddTriangle(t2, <<Neg(w), h, Neg(d)>>, <<w, h, d>>, <<w, h, Neg(d)>>, up)
        t4 == AddTriangle(t3, <<Neg(w), h, Neg(d)>>, <<Neg(w), h, d>>, <<w, h, d>>, up)
        t5 == AddTriangle(t4, <<Neg(w), Neg(h), d>>, <<w, Neg(h), d>>, <<w, h, d>>, front)
        t6 == AddTriangle(t5, <<Neg(w), Neg(h), d>>, <<w, h, d>>, <<Neg(w), h, d>>, front)
        t7 == AddTriangle(t6, <<Neg(w), Neg(h), Neg(d)>>, <<w, h, Neg(d)>>, <<w, Neg(h), Neg(d)>>, back)
        t8 == AddTriangle(t7, <<Neg(w), Neg(h), Neg(d)>>, <<Neg(w), h, Neg(d)>>, <<w, h, Neg(d)>>, back)
        t9 == AddTriangle(t8, <<w, Neg(h), Neg(d)>>, <<w, h, Neg(d)>>, <<w, h, d>>, right)
        t10 == AddTriangle(t9, <<w, Neg(h), Neg(d)>>, <<w, h, d>>, <<w, Neg(h), d>>, right)
        t11 == AddTriangle(t10, <<Neg(w), Neg(h), Neg(d)>>, <<Neg(w), h, d>>, <<Neg(w), h, Neg(d)>>, left)
    IN AddTriangle(t11, <<Neg(w), Neg(h), Neg(d)>>, <<Neg(w), Neg(h), d>>, <<Neg(w), h, d>>, left)

\* Mutant of CylinderFacets: the bottom cap is lost.
CylinderFacets_NoBottom(i, r, h, triangles) ==
    LET x1 == Times(Cos(i, CylinderSegments), r)
        z1 == Times(Sin(i, CylinderSegments), r)
        x2 == Times(Cos(i + 1, CylinderSegments), r)
        z2 == Times(Sin(i + 1, CylinderSegments), r)
        out == <<Times(Cos(i, CylinderSegments), Coord(Whole(1))), Coord(Whole(0)),
                 Times(Sin(i, CylinderSegments), Coord(Whole(1)))>>
        side1 == AddTriangle(triangles, <<x1, Neg(h), z1>>, <<x2, Neg(h), z2>>, <<x2, h, z2>>, out)
        side2 == AddTriangle(side1, <<x1, Neg(h), z1>>, <<x2, h, z2>>, <<x1, h, z1>>, out)
    IN AddTriangle(side2, <<Coord(Whole(0)), h, Coord(Whole(0))>>, <<x1, h, z1>>, <<x2, h, z2>>,
                   Vector(Whole(0), Whole(1), Whole(0)))

\* The body of the cylinder branch's loop, for segment i.
CylinderFacets(i, r, h, triangles) ==
    LET x1 == Times(Cos(i, CylinderSegments), r)
        z1 == Times(Sin(i, CylinderSegments), r)
        x2 == Times(Cos(i + 1, CylinderSegments), r)
        z2 == Times(Sin(i + 1, CylinderSegments), r)
        out == <<Times(Cos(i, CylinderSegments), Coord(Whole(1))), Coord(Whole(0)),
                 Times(Sin(i, CylinderSegments), Coord(Whole(1)))>>
        side1 == AddTriangle(triangles, <<x1, Neg(h), z1>>, <<x2, Neg(h), z2>>, <<x2, h, z2>>, out)
        side2 == AddTriangle(side1, <<x1, Neg(h), z1>>, <<x2, h, z2>>, <<x1, h, z1>>, out)
        top == AddTriangle(side2, <<Coord(Whole(0)), h, Coord(Whole(0))>>, <<x1, h, z1>>, <<x2, h, z2>>,
                           Vector(Whole(0), Whole(1), Whole(0)))
    IN AddTriangle(top, <<Coord(Whole(0)), Neg(h), Coord(Whole(0))>>, <<x2, Neg(h), z2>>, <<x1, Neg(h), z1>>,
                   Vector(Whole(0), Whole(-1), Whole(0)))

\* for (let i = 0; i < segments; i++) of the cylinder branch: what the
\* iterations from i on push.
RECURSIVE CylinderLoop(_, _, _)
CylinderLoop(i, r, h) ==
    IF i < CylinderSegments
    THEN CylinderFacets(i, r, h, <<>>) \o CylinderLoop(i + 1, r, h)
    ELSE <<>>

\* The cylinder branch.
Cylinder(shape, triangles) ==
    triangles \o CylinderLoop(0, Coord(Dimension(shape, "radius", Whole(25))),
                              Coord(Half(Dimension(shape, "height", Whole(50)))))

\* p1, p2, p3, p4 of the sphere branch: the point at ring boundary i and
\* segment boundary j.
SpherePoint(i, j, r) ==
    <<Times(Sin(i, 2 * SphereRings), Times(Cos(j, SphereSegments), r)),
      Times(Cos(i, 2 * SphereRings), r),
      Times(Sin(i, 2 * SphereRings), Times(Sin(j, SphereSegments), r))>>

\* Mutant of SphereFacets: the rings at the poles give two triangles too.
SphereFacets_NoPoleCheck(i, j, radius, triangles) ==
    LET r == Coord(radius)
        p1 == SpherePoint(i, j, r)
        p2 == SpherePoint(i, j + 1, r)
        p3 == SpherePoint(i + 1, j + 1, r)
        p4 == SpherePoint(i + 1, j, r)
        n1 == <<Over(p1[1], radius), Over(p1[2], radius), Over(p1[3], radius)>>
    IN AddTriangle(AddTriangle(triangles, p1, p2, p3, n1), p1, p3, p4, n1)

\* The body of the sphere branch's inner loop, for ring i and segment j.
SphereFacets(i, j, radius, triangles) ==
    LET r == Coord(radius)
        p1 == SpherePoint(i, j, r)
        p2 == SpherePoint(i, j + 1, r)
        p3 == SpherePoint(i + 1, j + 1, r)
        p4 == SpherePoint(i + 1, j, r)
        n1 == <<Over(p1[1], radius), Over(p1[2], radius), Over(p1[3], radius)>>
        upper == IF i > 0 THEN AddTriangle(triangles, p1, p2, p3, n1) ELSE triangles
    IN IF i < SphereRings - 1 THEN AddTriangle(upper, p1, p3, p4, n1) ELSE upper

\* for (let j = 0; j < segments; j++) of the sphere branch: what the
\* iterations of ring i from j on push.
RECURSIVE SphereRing(_, _, _)
SphereRing(i, j, radius) ==
    IF j < SphereSegments
    THEN SphereFacets(i, j, radius, <<>>) \o SphereRing(i, j + 1, radius)
    ELSE <<>>

\* for (let i = 0; i < rings; i++) of the sphere branch: what the iterations
\* from i on push.
RECURSIVE SphereLoop(_, _)
SphereLoop(i, radius) ==
    IF i < SphereRings
    THEN SphereRing(i, 0, radius) \o SphereLoop(i + 1, radius)
    ELSE <<>>

\* The sphere branch.
Sphere(shape, triangles) ==
    triangles \o SphereLoop(0, Dimension(shape, "radius", Whole(25)))

\* The body of the cone branch's loop, for segment i.
ConeFacets(i, r, h, triangles) ==
    LET x1 == Times(Cos(i, ConeSegments), r)
        z1 == Times(Sin(i, ConeSegments), r)
        x2 == Times(Cos(i + 1, ConeSegments), r)
        z2 == Times(Sin(i + 1, ConeSegments), r)
        side == AddTriangle(triangles, <<x1, Coord(Whole(0)), z1>>, <<x2, Coord(Whole(0)), z2>>,
                            <<Coord(Whole(0)), h, Coord(Whole(0))>>,
                            <<Times(Cos(i, ConeSegments), Coord(Whole(1))), Coord(Half(Whole(1))),
                              Times(Sin(i, ConeSegments), Coord(Whole(1)))>>)
    IN AddTriangle(side, Vector(Whole(0), Whole(0), Whole(0)), <<x2, Coord(Whole(0)), z2>>,
                   <<x1, Coord(Whole(0)), z1>>, Vector(Whole(0), Whole(-1), Whole(0)))

\* for (let i = 0; i < segments; i++) of the cone branch: what the iterations
\* from i on push.
RECURSIVE ConeLoop(_, _, _)
ConeLoop(i, r, h) ==
    IF i < ConeSegments
    THEN ConeFacets(i, r, h, <<>>) \o ConeLoop(i + 1, r, h)
    ELSE <<>>

\* The cone branch.
Cone(shape, triangles) ==
    triangles \o ConeLoop(0, Coord(Dimension(shape, "radius", Whole(25))),
                          Coord(Dimension(shape, "height", Whole(50))))

\* getPoint(u, v) of the torus branch, for ring boundary u and segment
\* boundary v: (R + r * cos v) * cos u is kept as R * cos u + r * cos v * cos u.
GetPoint(R, r, u, v) ==
    <<Plus(Times(Cos(u, TorusRings), R), Times(Cos(u, TorusRings), Times(Cos(v, TorusSegments), r))),
      Times(Sin(v, TorusSegments), r),
      Plus(Times(Sin(u, TorusRings), R), Times(Sin(u, TorusRings), Times(Cos(v, TorusSegments), r)))>>

\* The body of the torus branch's inner loop, for ring i and segment j.
TorusFacets(i, j, R, r, triangles) ==
    LET p1 == GetPoint(R, r, i, j)
        p2 == GetPoint(R, r, i + 1, j)
        p3 == GetPoint(R, r, i + 1, j + 1)
        p4 == GetPoint(R, r, i, j + 1)
        out == <<Times(Cos(i, TorusRings), Coord(Whole(1))), Coord(Whole(0)),
                 Times(Sin(i, TorusRings), Coord(Whole(1)))>>
    IN AddTriangle(AddTriangle(triangles, p1, p2, p3, out), p1, p3, p4, out)

\* for (let j = 0; j < segments; j++) of the torus branch: what the
\* iterations of ring i from j on push.
RECURSIVE TorusRing(_, _, _, _)
TorusRing(i, j, R, r) ==
    IF j < TorusSegments
    THEN TorusFacets(i, j, R, r, <<>>) \o TorusRing(i, j + 1, R, r)
    ELSE <<>>

\* for (let i = 0; i < rings; i++) of the torus branch: what the iterations
\* from i on push.
RECURSIVE TorusLoop(_, _, _)
TorusLoop(i, R, r) ==
    IF i < TorusRings
    THEN TorusRing(i, 0, R, r) \o TorusLoop(i + 1, R, r)
    ELSE <<>>

\* Mutant of Torus: the defaults are those of the other kinds.
Torus_OtherDefaults(shape, triangles) ==
    triangles \o TorusLoop(0, Coord(Dimension(shape, "radius", Whole(25))),
                           Coord(Half(Dimension(shape, "width", Whole(50)))))

\* The torus branch.
Torus(shape, triangles) ==
    triangles \o TorusLoop(0, Coord(Dimension(shape, "radius", Whole(30))),
                           Coord(Half(Dimension(shape, "width", Whole(10)))))

\* triangles.join('\n'): the lines of triangles; of an empty array, the one
\* empty line of the empty string.
Join(triangles) == IF triangles = <<>> THEN <<Line("", <<>>)>> ELSE triangles

\* generateSTL: no branch is taken for a type other than the five.
GenerateSTL(shape) ==
    LET triangles ==
            IF shape.type = "cube" THEN Cube(shape, <<>>)
            ELSE IF shape.type = "cylinder" THEN Cylinder(shape, <<>>)
            ELSE IF shape.type = "sphere" THEN Sphere(shape, <<>>)
            ELSE IF shape.type = "cone" THEN Cone(shape, <<>>)
            ELSE IF shape.type = "torus" THEN Torus(shape, <<>>)
            ELSE <<>>
    IN <<Line("solid model", <<>>)>> \o Join(triangles) \o <<Line("endsolid model", <<>>)>>

----------------------------------------------------------------------------
(* The volume and the print time of POST /api/preview.  A volume is kept as  *)
(* a fraction times a power of Math.PI, and Math.PI is not evaluated: where  *)
(* a number is needed it is kept between 157/50 and 22/7.                    *)

RECURSIVE GCD(_, _)
GCD(a, b) == IF b = 0 THEN a ELSE GCD(b, a % b)

\* The fraction x in lowest terms.
Reduce(x) ==
    LET g == GCD(IF x[1] < 0 THEN 0 - x[1] ELSE x[1], x[2])
    IN <<x[1] \div g, x[2] \div g>>

\* x * y
Product(x, y) == Reduce(<<x[1] * y[1], x[2] * y[2]>>)

\* Math.pow(x, 2) and Math.pow(x, 3)
Squared(x) == Product(x, x)
Cubed(x) == Product(Product(x, x), x)

\* The number x * Math.PI^k.
Amount(k, x) == [pi |-> k, by |-> x]

\* The switch on shape.type of the preview: volumeCm3 stays 0 for a type
\* with no case.
VolumeCm3(shape) ==
    LET mm3 == <<1, 1000>>
    IN CASE shape.type = "cube" ->
              Amount(0, Product(Product(Product(Dimension(shape, "width", Whole(50)),
                                                Dimension(shape, "height", Whole(50))),
                                        Dimension(shape, "depth", Whole(50))), mm3))
         [] shape.type = "cylinder" ->
              Amount(1, Product(Product(Squared(Dimension(shape, "radius", Whole(25))),
                                        Dimension(shape, "height", Whole(50))), mm3))
         [] shape.type = "sphere" ->
              Amount(1, Product(Product(<<4, 3>>, Cubed(Dimension(shape, "radius", Whole(25)))), mm3))
         [] shape.type = "cone" ->
              Amount(1, Product(Product(Product(<<1, 3>>, Squared(Dimension(shape, "radius", Whole(25)))),
                                        Dimension(shape, "height", Whole(50))), mm3))
         [] shape.type = "torus" ->
              Amount(2, Product(Product(Product(Whole(2), Dimension(shape, "radius", Whole(30))),
                                        Squared(Half(Dimension(shape, "width", Whole(10))))), mm3))
         [] OTHER -> Amount(0, Whole(0))

PiBelow == <<157, 50>>
PiAbove == <<22, 7>>

\* x * p^k
RECURSIVE Scaled(_, _, _)
Scaled(x, p, k) == IF k = 0 THEN x ELSE Scaled(Product(x, p), p, k - 1)

\* Fractions the number v is not below and not above.
Below(v) == Scaled(v.by, IF v.by[1] >= 0 THEN PiBelow ELSE PiAbove, v.pi)
Above(v) == Scaled(v.by, IF v.by[1] >= 0 THEN PiAbove ELSE PiBelow, v.pi)

\* Math.round(x): the integer nearest to x, the greater one of two.
Round(x) == (2 * x[1] + x[2]) \div (2 * x[2])

\* Math.max(a, b)
Max(a, b) == IF a >= b THEN a ELSE b

\* Mutant of EstimatedMinutes: the floor of 5 minutes is lost.
EstimatedMinutes_NoFloor(volumeCm3) ==
    Round(Product(Below(volumeCm3), <<3, 2>>))..Round(Product(Above(volumeCm3), <<3, 2>>))

\* Math.max(5, Math.round(volumeCm3 * 1.5)): the values it has for the
\* numbers volumeCm3 is kept between; one value unless these round apart.
EstimatedMinutes(volumeCm3) ==
    Max(5, Round(Product(Below(volumeCm3), <<3, 2>>)))..Max(5, Round(Product(Above(volumeCm3), <<3, 2>>)))

----------------------------------------------------------------------------
(* The order and queue endpoints. *)

\* The mesh text generateSTL(shape) as a job document holds it: kept as the
\* ShapeConfig it is the text of, and read back with MeshText.
StoredMesh(shape) == [generateSTL |-> shape]
MeshText(stlData) == GenerateSTL(stlData.generateSTL)

\* The job literal of POST /api/order, with shape = parsePrompt(prompt) and
\* stlData = generateSTL(shape).
NewJob(orderId, prompt, t) ==
    [id |-> orderId, prompt |-> prompt, shape |-> ParsePrompt(prompt),
     stlData |-> StoredMesh(ParsePrompt(prompt)),
     status |-> "pending_payment", createdAt |-> t]

\* Mutant of PaidJob: createdAt is assigned again.
PaidJob_Recreated(job, txId, t) ==
    [status |-> "paid", paymentTxId |-> txId, paidAt |-> t, createdAt |-> t] @@ job

\* job.status = 'paid'; job.paymentTxId = txId; job.paidAt = new Date().toISOString()
PaidJob(job, txId, t) ==
    [status |-> "paid", paymentTxId |-> txId, paidAt |-> t] @@ job

\* Mutant of PrintingJob: the status assignment is lost.
PrintingJob_StatusKept(job) == job

\* job.status = 'printing'
PrintingJob(job) == [status |-> "printing"] @@ job

\* job.status = 'completed'; job.printedAt = new Date().toISOString()
CompletedJob(job, t) == [status |-> "completed", printedAt |-> t] @@ job

\* Mutant of Enqueue: the push is lost.
Enqueue_Lost(q, orderId) == q

\* queue.push(orderId)
Enqueue(q, orderId) == Append(q, orderId)

\* Mutant of RemoveFromQueue: only the first occurrence goes, as with
\* queue.splice(queue.indexOf(orderId), 1).
RemoveFromQueue_FirstOnly(q, orderId) ==
    IF \E i \in DOMAIN q : q[i] = orderId
    THEN LET k == CHOOSE i \in DOMAIN q : q[i] = orderId /\ \A j \in 1..(i - 1) : q[j] # orderId
         IN SubSeq(q, 1, k - 1) \o SubSeq(q, k + 1, Len(q))
    ELSE q

\* queue.filter((id) => id !== orderId)
RemoveFromQueue(q, orderId) == SelectSeq(q, LAMBDA id : id # orderId)

\* Mutant of IsOffered: the status test is lost.
IsOffered_AnyStatus(jobs, id) == id \in DOMAIN jobs

\* The test of GET /api/queue on one queue entry: if (jobData) ... if (job.status === 'paid')
IsOffered(jobs, id) == id \in DOMAIN jobs /\ jobs[id].status = "paid"

\* The object GET /api/queue pushes for a job: { id, shape, status, paidAt }.
Summary(job) == [f \in {"id", "shape", "status", "paidAt"} \cap DOMAIN job |-> job[f]]

\* The for loop of GET /api/queue: the offered jobs of the queue, in queue order.
RECURSIVE QueueListing(_, _)
QueueListing(q, jobs) ==
    IF q = <<>> THEN <<>>
    ELSE LET rest == QueueListing(Tail(q), jobs)
         IN IF IsOffered(jobs, Head(q))
            THEN <<Summary(jobs[Head(q)])>> \o rest
            ELSE rest

\* Mutant of PeekNext: the last job of the listing is taken.
PeekNext_Last(jobs) == IF Len(jobs) > 0 THEN <<jobs[Len(jobs)]>> ELSE <<>>

\* pollQueue's choice, data.jobs[0], when data.jobs.length > 0: a sequence of at most one job.
PeekNext(jobs) == IF Len(jobs) > 0 THEN <<jobs[1]>> ELSE <<>>

\* A request the lifecycle table allows (tableAllows) is always taken; another
\* one only while the run holds fewer than MaxInvalid of them.
Allowed(tableAllows) == tableAllows \/ invalid < MaxInvalid

\* The history count after a request.
Count(tableAllows) == IF tableAllows THEN invalid ELSE invalid + 1

\* No execution of pollQueue is under way.
NoPoll == [pc |-> "idle", job |-> <<>>]

\* generateSTL has not returned.
NoMesh == [status |-> "none", text |-> <<>>]

\* POST /api/preview has not answered.
NoPreview == [status |-> "none"]

Init ==
    /\ store = <<>>
    /\ ttl = <<>>
    /\ queue = <<>>
    /\ now = 0
    /\ last = Response("none", 0, 0, <<>>, 0)
    /\ invalid = 0
    /\ polls = [e \in Polls |-> NoPoll]
    /\ printer = [state |-> "standby", file |-> 0]
    /\ descriptor = Shape("cube", <<>>)
    /\ mesh = NoMesh
    /\ preview = NoPreview
    /\ requests = <<>>

\* POST /api/order
CreateOrder(prompt, orderId) ==
    /\ Allowed(orderId \notin DOMAIN store)
    /\ store' = Put(store, orderId, NewJob(orderId, prompt, now))
    /\ ttl' = Put(ttl, orderId, ExpirationTtl)
    /\ last' = Response("create", orderId, 402, <<>>, 0)
    /\ invalid' = Count(orderId \notin DOMAIN store)
    /\ UNCHANGED <<queue, now>>

\* POST /api/order/:id/confirm
ConfirmPayment(orderId, txId) ==
    IF orderId \notin DOMAIN store
    THEN /\ last' = Response("confirm", orderId, 404, <<>>, 0)
         /\ UNCHANGED <<store, ttl, queue, now, invalid>>
    ELSE /\ Allowed(store[orderId].status = "pending_payment")
         /\ store' = Put(store, orderId, PaidJob(store[orderId], txId, now))
         /\ ttl' = Put(ttl, orderId, 0)
         /\ queue' = Enqueue(queue, orderId)
         /\ last' = Response("confirm", orderId, 200, <<>>, Len(queue))
         /\ invalid' = Count(store[orderId].status = "pending_payment")
         /\ UNCHANGED now

\* Mutant of GetQueue: the ids whose job is not listed are dropped from the
\* queue.
GetQueue_Pruning ==
    /\ last' = Response("queue", 0, 200, QueueListing(queue, store), Len(queue))
    /\ queue' = SelectSeq(queue, LAMBDA id : IsOffered(store, id))
    /\ UNCHANGED <<store, ttl, now, invalid>>

\* GET /api/queue
GetQueue ==
    /\ last' = Response("queue", 0, 200, QueueListing(queue, store), Len(queue))
    /\ UNCHANGED <<store, ttl, queue, now, invalid>>

\* POST /api/order/:id/printing
BeginPrinting(orderId) ==
    IF orderId \notin DOMAIN store
    THEN /\ last' = Response("printing", orderId, 404, <<>>, 0)
         /\ UNCHANGED <<store, ttl, queue, now, invalid>>
    ELSE /\ Allowed(store[orderId].status = "paid")
         /\ store' = Put(store, orderId, PrintingJob(store[orderId]))
         /\ ttl' = Put(ttl, orderId, 0)
         /\ last' = Response("printing", orderId, 200, <<>>, 0)
         /\ invalid' = Count(store[orderId].status = "paid")
         /\ UNCHANGED <<queue, now>>

\* POST /api/order/:id/complete
Complete(orderId) ==
    IF orderId \notin DOMAIN store
    THEN /\ last' = Response("complete", orderId, 404, <<>>, 0)
         /\ UNCHANGED <<store, ttl, queue, now, invalid>>
    ELSE /\ Allowed(store[orderId].status = "printing")
         /\ store' = Put(store, orderId, CompletedJob(store[orderId], now))
         /\ ttl' = Put(ttl, orderId, 0)
         /\ queue' = RemoveFromQueue(queue, orderId)
         /\ last' = Response("complete", orderId, 200, <<>>, Len(queue))
         /\ invalid' = Count(store[orderId].status = "printing")
         /\ UNCHANGED now

\* Time passes between two requests.
Tick ==
    /\ now + 1 \in Instants
    /\ now' = now + 1
    /\ last' = Response("none", 0, 0, <<>>, 0)
    /\ UNCHANGED <<store, ttl, queue, invalid>>

\* The namespace drops a job document whose expirationTtl has run out.
Expire(orderId) ==
    /\ orderId \in DOMAIN store
    /\ ttl[orderId] > 0
    /\ store' = Drop(store, orderId)
    /\ ttl' = Drop(ttl, orderId)
    /\ last' = Response("none", 0, 0, <<>>, 0)
    /\ UNCHANGED <<queue, now, invalid>>

\* Mutant of GetOrder: the job is not looked up.
GetOrder_Unchecked(orderId) ==
    /\ last' = Response("status", orderId, 200, <<>>, 0)
    /\ UNCHANGED <<store, ttl, queue, now, invalid>>

\* GET /api/order/:id
GetOrder(orderId) ==
    /\ last' = Response("status", orderId, IF orderId \in DOMAIN store THEN 200 ELSE 404, <<>>, 0)
    /\ UNCHANGED <<store, ttl, queue, now, invalid>>

\* GET /api/order/:id/stl
GetStl(orderId) ==
    /\ last' = Response("stl", orderId, IF orderId \in DOMAIN store THEN 200 ELSE 404, <<>>, 0)
    /\ UNCHANGED <<store, ttl, queue, now, invalid>>

Next ==
    \/ \E p \in Prompts, id \in Ids : CreateOrder(p, id) /\ UNCHANGED <<agent, builder, requests>>
    \/ \E id \in Ids, tx \in TxIds : ConfirmPayment(id, tx) /\ UNCHANGED <<agent, builder, requests>>
    \/ GetQueue /\ UNCHANGED <<agent, builder, requests>>
    \/ \E id \in Ids : BeginPrinting(id) /\ UNCHANGED <<agent, builder, requests>>
    \/ \E id \in Ids : Complete(id) /\ UNCHANGED <<agent, builder, requests>>
    \/ Tick /\ UNCHANGED <<agent, builder, requests>>
    \/ \E id \in Ids : Expire(id) /\ UNCHANGED <<agent, builder, requests>>

Spec == Init /\ [][Next]_vars

\* The requests to every endpoint of a job, the two that only read included,
\* at one instant of the clock.
QueryNext ==
    \/ \E p \in Prompts, id \in Ids : CreateOrder(p, id) /\ UNCHANGED <<agent, builder, requests>>
    \/ \E id \in Ids, tx \in TxIds : ConfirmPayment(id, tx) /\ UNCHANGED <<agent, builder, requests>>
    \/ \E id \in Ids : GetOrder(id) /\ UNCHANGED <<agent, builder, requests>>
    \/ \E id \in Ids : GetStl(id) /\ UNCHANGED <<agent, builder, requests>>
    \/ GetQueue /\ UNCHANGED <<agent, builder, requests>>
    \/ \E id \in Ids : BeginPrinting(id) /\ UNCHANGED <<agent, builder, requests>>
    \/ \E id \in Ids : Complete(id) /\ UNCHANGED <<agent, builder, requests>>
    \/ \E id \in Ids : Expire(id) /\ UNCHANGED <<agent, builder, requests>>

QuerySpec == Init /\ [][QueryNext]_vars

----------------------------------------------------------------------------
(* The handlers of confirm and complete one await at a time.  The namespace  *)
(* reads and writes one key at a time, and handlers of requests for          *)
(* different jobs run between each other's awaits.                           *)

\* The handler of a request for orderId is at an await.
AtAwait(orderId, op, pc) ==
    /\ orderId \in DOMAIN requests
    /\ requests[orderId].op = op
    /\ requests[orderId].pc = pc

\* The handler goes on to its next await.
Await(orderId, pc) == [requests EXCEPT ![orderId].pc = pc]

\* confirm: await c.env.PRINT_QUEUE.get(`job:${orderId}`), the 404 and the
\* assignments to job.
ConfirmGetJob(orderId, txId) ==
    /\ orderId \notin DOMAIN requests
    /\ IF orderId \notin DOMAIN store
       THEN /\ last' = Response("confirm", orderId, 404, <<>>, 0)
            /\ UNCHANGED requests
       ELSE /\ requests' = Put(requests, orderId,
                               [op |-> "confirm", pc |-> "put job",
                                job |-> PaidJob(store[orderId], txId, now), queue |-> <<>>])
            /\ last' = Response("none", 0, 0, <<>>, 0)
    /\ UNCHANGED <<store, ttl, queue, now, invalid>>

\* confirm: await c.env.PRINT_QUEUE.put(`job:${orderId}`, JSON.stringify(job))
ConfirmPutJob(orderId) ==
    /\ AtAwait(orderId, "confirm", "put job")
    /\ store' = Put(store, orderId, requests[orderId].job)
    /\ ttl' = Put(ttl, orderId, 0)
    /\ requests' = Await(orderId, "get queue")
    /\ last' = Response("none", 0, 0, <<>>, 0)
    /\ UNCHANGED <<queue, now, invalid>>

\* confirm: const queue = JSON.parse(await c.env.PRINT_QUEUE.get('queue') || '[]')
ConfirmGetQueue(orderId) ==
    /\ AtAwait(orderId, "confirm", "get queue")
    /\ requests' = [requests EXCEPT ![orderId].pc = "put queue", ![orderId].queue = queue]
    /\ last' = Response("none", 0, 0, <<>>, 0)
    /\ UNCHANGED <<store, ttl, queue, now, invalid>>

\* confirm: queue.push(orderId), await c.env.PRINT_QUEUE.put('queue',
\* JSON.stringify(queue)) and the response.
ConfirmPutQueue(orderId) ==
    /\ AtAwait(orderId, "confirm", "put queue")
    /\ queue' = Enqueue(requests[orderId].queue, orderId)
    /\ requests' = Drop(requests, orderId)
    /\ last' = Response("confirm", orderId, 200, <<>>, Len(requests[orderId].queue))
    /\ UNCHANGED <<store, ttl, now, invalid>>

\* complete: await c.env.PRINT_QUEUE.get(`job:${orderId}`), the 404 and the
\* assignments to job.
CompleteGetJob(orderId) ==
    /\ orderId \notin DOMAIN requests
    /\ IF orderId \notin DOMAIN store
       THEN /\ last' = Response("complete", orderId, 404, <<>>, 0)
            /\ UNCHANGED requests
       ELSE /\ requests' = Put(requests, orderId,
                               [op |-> "complete", pc |-> "put job",
                                job |-> CompletedJob(store[orderId], now), queue |-> <<>>])
            /\ last' = Response("none", 0, 0, <<>>, 0)
    /\ UNCHANGED <<store, ttl, queue, now, invalid>>

\* complete: await c.env.PRINT_QUEUE.put(`job:${orderId}`, JSON.stringify(job))
CompletePutJob(orderId) ==
    /\ AtAwait(orderId, "complete", "put job")
    /\ store' = Put(store, orderId, requests[orderId].job)
    /\ ttl' = Put(ttl, orderId, 0)
    /\ requests' = Await(orderId, "get queue")
    /\ last' = Response("none", 0, 0, <<>>, 0)
    /\ UNCHANGED <<queue, now, invalid>>

\* complete: const queue = JSON.parse(await c.env.PRINT_QUEUE.get('queue') || '[]')
CompleteGetQueue(orderId) ==
    /\ AtAwait(orderId, "complete", "get queue")
    /\ requests' = [requests EXCEPT ![orderId].pc = "put queue", ![orderId].queue = queue]
    /\ last' = Response("none", 0, 0, <<>>, 0)
    /\ UNCHANGED <<store, ttl, queue, now, invalid>>

\* complete: the filter, await c.env.PRINT_QUEUE.put('queue',
\* JSON.stringify(newQueue)) and the response.
CompletePutQueue(orderId) ==
    /\ AtAwait(orderId, "complete", "put queue")
    /\ queue' = RemoveFromQueue(requests[orderId].queue, orderId)
    /\ requests' = Drop(requests, orderId)
    /\ last' = Response("complete", orderId, 200, <<>>, Len(requests[orderId].queue))
    /\ UNCHANGED <<store, ttl, now, invalid>>

\* The job's status is the one the lifecycle table asks of the request, and
\* no other request for the job is being handled.
InTurn(orderId, status) ==
    /\ orderId \in DOMAIN store
    /\ store[orderId].status = status
    /\ orderId \notin DOMAIN requests

\* Clients that send, for each job, the requests of the lifecycle table in
\* its order and one at a time: only handlers of different jobs overlap.
RaceNext ==
    \/ \E p \in Prompts, id \in Ids :
        id \notin DOMAIN store /\ CreateOrder(p, id) /\ UNCHANGED <<agent, builder, requests>>
    \/ \E id \in Ids, tx \in TxIds :
        InTurn(id, "pending_payment") /\ ConfirmGetJob(id, tx) /\ UNCHANGED <<agent, builder>>
    \/ \E id \in Ids : ConfirmPutJob(id) /\ UNCHANGED <<agent, builder>>
    \/ \E id \in Ids : ConfirmGetQueue(id) /\ UNCHANGED <<agent, builder>>
    \/ \E id \in Ids : ConfirmPutQueue(id) /\ UNCHANGED <<agent, builder>>
    \/ \E id \in Ids :
        InTurn(id, "paid") /\ BeginPrinting(id) /\ UNCHANGED <<agent, builder, requests>>
    \/ \E id \in Ids :
        InTurn(id, "printing") /\ CompleteGetJob(id) /\ UNCHANGED <<agent, builder>>
    \/ \E id \in Ids : CompletePutJob(id) /\ UNCHANGED <<agent, builder>>
    \/ \E id \in Ids : CompleteGetQueue(id) /\ UNCHANGED <<agent, builder>>
    \/ \E id \in Ids : CompletePutQueue(id) /\ UNCHANGED <<agent, builder>>

RaceSpec == Init /\ [][RaceNext]_vars

----------------------------------------------------------------------------
(* One call of generateSTL and one preview, of one ShapeConfig. *)

Kinds == {"cube", "cylinder", "sphere", "cone", "torus", "text", "custom"}

\* The dimensions parsePrompt gives a shape of each kind, which are the ones
\* the kind's branch of generateSTL reads.
FieldsOf(kind) ==
    CASE kind = "cube" -> {"width", "height", "depth"}
      [] kind \in {"cylinder", "cone"} -> {"radius", "height"}
      [] kind = "sphere" -> {"radius"}
      [] kind = "torus" -> {"radius", "width"}
      [] OTHER -> {}

\* The values of a dimension: negative, zero and positive.
Numbers == {Whole(n) : n \in -1..MaxDim}

\* The ShapeConfigs: of each kind, with each of the kind's dimensions absent
\* or any of the values.
Shapes ==
    UNION {{Shape(k, d) : d \in UNION {[fs -> Numbers] : fs \in SUBSET FieldsOf(k)}} : k \in Kinds}

MeshInit ==
    /\ descriptor \in Shapes
    /\ mesh = NoMesh
    /\ preview = NoPreview
    /\ requests = <<>>
    /\ store = <<>>
    /\ ttl = <<>>
    /\ queue = <<>>
    /\ now = 0
    /\ last = Response("none", 0, 0, <<>>, 0)
    /\ invalid = 0
    /\ polls = [e \in Polls |-> NoPoll]
    /\ printer = [state |-> "standby", file |-> 0]

\* const stl = generateSTL(shape)
Generate ==
    /\ mesh = NoMesh
    /\ mesh' = [status |-> "returned", text |-> GenerateSTL(descriptor)]
    /\ UNCHANGED <<descriptor, preview, cloud, agent, requests>>

\* POST /api/preview from const dims = shape.dimensions on, for the
\* ShapeConfig as shape.
Preview ==
    /\ preview = NoPreview
    /\ \E minutes \in EstimatedMinutes(VolumeCm3(descriptor)) :
          preview' = [status |-> "answered",
                      shape |-> descriptor,
                      volumeCm3 |-> VolumeCm3(descriptor),
                      estimatedMinutes |-> minutes]
    /\ UNCHANGED <<descriptor, mesh, cloud, agent, requests>>

MeshNext == Generate \/ Preview

MeshSpec == MeshInit /\ [][MeshNext]_vars

----------------------------------------------------------------------------
(* The print agent.  An execution of pollQueue takes one step at each await. *)

\* Mutant of GetPrinterStatus: the catch branch reports a ready printer.
GetPrinterStatus_CatchReady(reachable, ready) ==
    IF reachable
    THEN [ready |-> ready, printing |-> printer.state = "printing", error |-> FALSE]
    ELSE [ready |-> TRUE, printing |-> FALSE, error |-> FALSE]

\* getPrinterStatus: the catch branch when the printer cannot be reached,
\* otherwise ready from /printer/info and printing from print_stats.
GetPrinterStatus(reachable, ready) ==
    IF reachable
    THEN [ready |-> ready, printing |-> printer.state = "printing", error |-> FALSE]
    ELSE [ready |-> FALSE, printing |-> FALSE, error |-> TRUE]

\* The id of the job an execution holds.
JobOf(e) == polls[e].job[1].id

\* The execution has returned.
Return(e) == [polls EXCEPT ![e] = NoPoll]

\* The execution goes on to its next await.
Goto(e, pc) == [polls EXCEPT ![e].pc = pc]

\* The orders in which the payments of the jobs can have been confirmed.
Orders == {q \in [1..MaxIds -> Ids] : \A i, j \in 1..MaxIds : q[i] = q[j] => i = j}

\* The jobs of the store as paid by their customers, in any order.
AgentInit ==
    /\ store = [id \in Ids |-> PaidJob(NewJob(id, CHOOSE p \in Prompts : TRUE, 0), CHOOSE tx \in TxIds : TRUE, 0)]
    /\ ttl = [id \in Ids |-> 0]
    /\ queue \in Orders
    /\ now = 0
    /\ last = Response("none", 0, 0, <<>>, 0)
    /\ invalid = 0
    /\ polls = [e \in Polls |-> NoPoll]
    /\ printer = [state |-> "standby", file |-> 0]
    /\ descriptor = Shape("cube", <<>>)
    /\ mesh = NoMesh
    /\ preview = NoPreview
    /\ requests = <<>>

\* pollQueue to its first return: the queue listing is fetched; with no job
\* listed the execution returns, else it holds data.jobs[0].
PollQueue(e) ==
    /\ polls[e].pc = "idle"
    /\ GetQueue
    /\ polls' = IF Len(last'.jobs) > 0
                THEN [polls EXCEPT ![e] = [pc |-> "status", job |-> PeekNext(last'.jobs)]]
                ELSE polls
    /\ UNCHANGED <<printer, builder, requests>>

\* const status = await getPrinterStatus() and the three returns that follow.
CheckPrinter(e, reachable, ready) ==
    /\ polls[e].pc = "status"
    /\ LET status == GetPrinterStatus(reachable, ready)
       IN polls' = IF status.error \/ status.printing \/ ~status.ready
                   THEN Return(e)
                   ELSE Goto(e, "download")
    /\ last' = Response("printer", 0, IF reachable THEN 200 ELSE 0, <<>>, 0)
    /\ UNCHANGED <<store, ttl, queue, now, invalid, printer, builder, requests>>

\* What becomes of a fetch of the agent to the Worker: the handler serves it;
\* or the response is an error that no handler wrote (code 500), which fetch
\* returns like any response; or fetch throws, and the catch of processJob
\* returns false.
Answers == {"served", "error", "thrown"}

\* A fetch of processJob that no handler served.
Unserved(e, op, answer, pc) ==
    /\ answer \in {"error", "thrown"}
    /\ last' = Response(op, JobOf(e), IF answer = "error" THEN 500 ELSE 0, <<>>, 0)
    /\ polls' = IF answer = "error" THEN Goto(e, pc) ELSE Return(e)
    /\ UNCHANGED <<store, ttl, queue, now, invalid>>

\* processJob, step 1: the mesh is fetched; the response's status is not read.
DownloadStl(e, answer) ==
    /\ polls[e].pc = "download"
    /\ \/ answer = "served" /\ GetStl(JobOf(e)) /\ polls' = Goto(e, "upload")
       \/ Unserved(e, "stl", answer, "upload")
    /\ UNCHANGED <<printer, builder, requests>>

\* Mutant of Upload: the result of uploadGcode is not read.
Upload_Unchecked(e, uploaded) ==
    /\ polls[e].pc = "upload"
    /\ polls' = Goto(e, "printing")
    /\ last' = Response("upload", JobOf(e), IF uploaded THEN 200 ELSE 0, <<>>, 0)
    /\ UNCHANGED <<store, ttl, queue, now, invalid, printer, builder, requests>>

\* processJob, steps 2 and 3: uploadGcode and if (!uploaded) return false.
Upload(e, uploaded) ==
    /\ polls[e].pc = "upload"
    /\ polls' = IF uploaded THEN Goto(e, "printing") ELSE Return(e)
    /\ last' = Response("upload", JobOf(e), IF uploaded THEN 200 ELSE 0, <<>>, 0)
    /\ UNCHANGED <<store, ttl, queue, now, invalid, printer, builder, requests>>

\* processJob, step 4: POST /api/order/:id/printing; the response is not read.
MarkPrinting(e, answer) ==
    /\ polls[e].pc = "printing"
    /\ \/ answer = "served" /\ BeginPrinting(JobOf(e)) /\ polls' = Goto(e, "start")
       \/ Unserved(e, "printing", answer, "start")
    /\ UNCHANGED <<printer, builder, requests>>

\* processJob, step 5: startPrint and the return of processJob.  The printer
\* takes a start only while it is not printing.
StartPrint(e, started) ==
    /\ polls[e].pc = "start"
    /\ started => printer.state # "printing"
    /\ printer' = IF started THEN [state |-> "printing", file |-> JobOf(e)] ELSE printer
    /\ polls' = Return(e)
    /\ last' = Response("start", JobOf(e), IF started THEN 200 ELSE 0, <<>>, 0)
    /\ UNCHANGED <<store, ttl, queue, now, invalid, builder, requests>>

\* The printer finishes its print.
PrintDone ==
    /\ printer.state = "printing"
    /\ printer' = [printer EXCEPT !.state = "complete"]
    /\ last' = Response("none", 0, 0, <<>>, 0)
    /\ UNCHANGED <<store, ttl, queue, now, invalid, polls, builder, requests>>

\* A client of the Worker reports a printing job complete.
ReportComplete(orderId) ==
    /\ orderId \in DOMAIN store
    /\ store[orderId].status = "printing"
    /\ Complete(orderId)
    /\ UNCHANGED <<agent, builder, requests>>

AgentNext ==
    \/ \E e \in Polls : PollQueue(e)
    \/ \E e \in Polls, reachable, ready \in BOOLEAN : CheckPrinter(e, reachable, ready)
    \/ \E e \in Polls, answer \in Answers : DownloadStl(e, answer)
    \/ \E e \in Polls, uploaded \in BOOLEAN : Upload(e, uploaded)
    \/ \E e \in Polls, answer \in Answers : MarkPrinting(e, answer)
    \/ \E e \in Polls, started \in BOOLEAN : StartPrint(e, started)
    \/ PrintDone
    \/ \E id \in Ids : ReportComplete(id)

AgentSpec == AgentInit /\ [][AgentNext]_vars

\* The agent with a printer that is reachable and ready, takes every upload,
\* takes a start whenever it is not printing, and finishes every print.
\* POST /api/order/:id/complete stays open to a client, but nothing is bound
\* to call it: the agent has no call of it, and monitorPrints is never run.
LiveNext ==
    \/ \E e \in Polls : PollQueue(e)
    \/ \E e \in Polls : CheckPrinter(e, TRUE, TRUE)
    \/ \E e \in Polls : DownloadStl(e, "served")
    \/ \E e \in Polls : Upload(e, TRUE)
    \/ \E e \in Polls : MarkPrinting(e, "served")
    \/ \E e \in Polls : StartPrint(e, printer.state # "printing")
    \/ PrintDone
    \/ \E id \in Ids : ReportComplete(id)

\* Every await of an execution returns, the interval timer keeps starting
\* executions, and the printer keeps working.
Fairness ==
    /\ \A e \in Polls :
        /\ WF_vars(PollQueue(e))
        /\ WF_vars(CheckPrinter(e, TRUE, TRUE))
        /\ WF_vars(DownloadStl(e, "served"))
        /\ WF_vars(Upload(e, TRUE))
        /\ WF_vars(MarkPrinting(e, "served"))
        /\ WF_vars(StartPrint(e, printer.state # "printing"))
    /\ WF_vars(PrintDone)

LiveSpec == AgentInit /\ [][LiveNext]_vars /\ Fairness

\* The agent with a printer that is reachable, ready and finishes every
\* print, and a Worker that serves every request, while an upload and a start
\* may fail.
RetryNext ==
    \/ \E e \in Polls : PollQueue(e)
    \/ \E e \in Polls : CheckPrinter(e, TRUE, TRUE)
    \/ \E e \in Polls : DownloadStl(e, "served")
    \/ \E e \in Polls, uploaded \in BOOLEAN : Upload(e, uploaded)
    \/ \E e \in Polls : MarkPrinting(e, "served")
    \/ \E e \in Polls, started \in BOOLEAN : StartPrint(e, started)
    \/ PrintDone
    \/ \E id \in Ids : ReportComplete(id)

\* Every await of an execution returns, with one result or the other, the
\* interval timer keeps starting executions, and the printer keeps working.
RetryFairness ==
    /\ \A e \in Polls :
        /\ WF_vars(PollQueue(e))
        /\ WF_vars(CheckPrinter(e, TRUE, TRUE))
        /\ WF_vars(DownloadStl(e, "served"))
        /\ WF_vars(\E uploaded \in BOOLEAN : Upload(e, uploaded))
        /\ WF_vars(MarkPrinting(e, "served"))
        /\ WF_vars(\E started \in BOOLEAN : StartPrint(e, started))
    /\ WF_vars(PrintDone)

RetrySpec == AgentInit /\ [][RetryNext]_vars /\ RetryFairness

----------------------------------------------------------------------------
(* Vocabulary of the properties. *)

Range(s) == {s[i] : i \in DOMAIN s}

\* The ids of the jobs whose status is paid or printing.
Active == {id \in DOMAIN store : store[id].status \in {"paid", "printing"}}

\* The step just taken handled request op for job id.
Handled(op, id) == last'.op = op /\ last'.id = id

----------------------------------------------------------------------------
\* C1: after any sequence of valid transitions (create of an absent id,
\* confirmPayment of a pending_payment job, beginPrinting of a paid job,
\* complete of a printing job), the set of ids in the queue equals the set of
\* ids of the jobs whose status is paid or printing.
C1_QueueInvariant == invalid = 0 => Range(queue) = Active

\* Valid transitions have completed one job and taken another to printing.
C1_Witness ==
    /\ invalid = 0
    /\ \E a, b \in DOMAIN store :
        /\ store[a].status = "completed"
        /\ store[b].status = "printing"
        /\ queue = <<b>>

\* C2: no id occurs more than once in the queue, after any sequence of
\* requests, repeated confirmPayment calls for one job included.
C2_EnqueuedOnce == \A i, j \in DOMAIN queue : queue[i] = queue[j] => i = j

\* C3: confirmPayment on a job whose status is already paid fails and leaves
\* the job's paymentTxId, paidAt and status as they were.
C3_ConfirmOnPaidRejected ==
    [][\A id \in Ids :
        (id \in DOMAIN store /\ store[id].status = "paid" /\ Handled("confirm", id))
        => /\ last'.code # 200
           /\ store'[id].status = store[id].status
           /\ store'[id].paymentTxId = store[id].paymentTxId
           /\ store'[id].paidAt = store[id].paidAt]_vars

\* C4: beginPrinting on a job whose status is not paid, and complete on a job
\* whose status is not printing, fail and leave the job record and the queue
\* unchanged.
C4_InvalidTransitionRejected ==
    [][\A id \in Ids :
        (/\ id \in DOMAIN store
         /\ \/ Handled("printing", id) /\ store[id].status # "paid"
            \/ Handled("complete", id) /\ store[id].status # "printing")
        => /\ last'.code # 200
           /\ store'[id] = store[id]
           /\ queue' = queue]_vars

\* The place of a status on the path pending_payment, paid, printing,
\* completed; failed is terminal like completed.
Rank(status) ==
    CASE status = "pending_payment" -> 0
      [] status = "paid" -> 1
      [] status = "printing" -> 2
      [] OTHER -> 3

\* C5: a job's status never returns to an earlier status under a confirm,
\* printing or complete request, and a completed or failed job never changes
\* its status again.
C5_StatusOnlyForward ==
    [][\A id \in DOMAIN store \cap DOMAIN store' :
        last'.op # "create"
        => /\ Rank(store'[id].status) >= Rank(store[id].status)
           /\ store[id].status \in {"completed", "failed"}
              => store'[id].status = store[id].status]_vars

\* C6: paymentTxId and paidAt appear on a job only by its pending_payment to
\* paid transition, printedAt is present only on a completed job, and none of
\* the three, once set, is overwritten by a later request on the job.
C6_SetOnceAtTransition ==
    [][\A id \in DOMAIN store' :
        /\ Has(store'[id], "printedAt") => store'[id].status = "completed"
        /\ (id \in DOMAIN store /\ last'.op # "create")
           => /\ \A f \in {"paymentTxId", "paidAt", "printedAt"} :
                    Has(store[id], f)
                    => Has(store'[id], f) /\ store'[id][f] = store[id][f]
              /\ \A f \in {"paymentTxId", "paidAt"} :
                    (~Has(store[id], f) /\ Has(store'[id], f))
                    => /\ store[id].status = "pending_payment"
                       /\ store'[id].status = "paid"]_vars

\* C7: create stores a job with status pending_payment and no paymentTxId,
\* paidAt or printedAt, leaves the queue unchanged and leaves every job already
\* in the store unchanged.
C7_CreateFrame ==
    [][\A id \in Ids :
        Handled("create", id)
        => /\ id \in DOMAIN store'
           /\ store'[id].status = "pending_payment"
           /\ \A f \in {"paymentTxId", "paidAt", "printedAt"} : ~Has(store'[id], f)
           /\ queue' = queue
           /\ \A k \in DOMAIN store : k \in DOMAIN store' /\ store'[k] = store[k]]_vars

\* Job id is the only job of the store and has the given status.
OnlyJob(jobs, id, status) == DOMAIN jobs = {id} /\ jobs[id].status = status

\* C8: the end-to-end run on an empty store. create gives pending_payment;
\* confirmPayment then gives paid and queue = [id]; the queue listing then
\* offers id; beginPrinting gives printing with the queue still [id]; complete
\* gives completed with printedAt set and an empty queue.
C8_EndToEnd ==
    [][\A id \in Ids :
        /\ (DOMAIN store = {} /\ queue = <<>> /\ Handled("create", id))
           => OnlyJob(store', id, "pending_payment") /\ queue' = <<>>
        /\ (OnlyJob(store, id, "pending_payment") /\ queue = <<>> /\ Handled("confirm", id))
           => OnlyJob(store', id, "paid") /\ queue' = <<id>>
        /\ (OnlyJob(store, id, "paid") /\ queue = <<id>> /\ Handled("queue", 0))
           => /\ Len(last'.jobs) = 1
              /\ PeekNext(last'.jobs)[1].id = id
              /\ OnlyJob(store', id, "paid") /\ queue' = <<id>>
        /\ (OnlyJob(store, id, "paid") /\ queue = <<id>> /\ Handled("printing", id))
           => OnlyJob(store', id, "printing") /\ queue' = <<id>>
        /\ (OnlyJob(store, id, "printing") /\ queue = <<id>> /\ Handled("complete", id))
           => /\ OnlyJob(store', id, "completed")
              /\ Has(store'[id], "printedAt")
              /\ queue' = <<>>]_vars

\* The run has ended: one job, made by valid transitions only, is completed
\* with printedAt set, and the queue is empty again.
C8_Witness ==
    /\ invalid = 0
    /\ last.op = "complete" /\ last.code = 200 /\ last.read = 1
    /\ OnlyJob(store, last.id, "completed")
    /\ Has(store[last.id], "printedAt") /\ Has(store[last.id], "paymentTxId")
    /\ queue = <<>>

\* C9: the job the agent takes from a queue listing, and every job listed, is
\* a queue entry whose job exists and has status paid; it is the queue head
\* only if the head's job exists and has status paid.
C9_PeekNextOnlyPaid ==
    last.op = "queue"
    => /\ \A i \in DOMAIN last.jobs :
            /\ last.jobs[i].id \in Range(queue)
            /\ last.jobs[i].id \in DOMAIN store
            /\ store[last.jobs[i].id].status = "paid"
       /\ \A i \in DOMAIN PeekNext(last.jobs) :
            (queue # <<>> /\ PeekNext(last.jobs)[i].id = Head(queue))
            => Head(queue) \in DOMAIN store /\ store[Head(queue)].status = "paid"

\* A listing over a queue whose head entry has no job document offers the
\* agent a later entry, not the queue head.
C9_Witness ==
    /\ last.op = "queue"
    /\ Len(queue) >= 2
    /\ Head(queue) \notin DOMAIN store
    /\ PeekNext(last.jobs) # <<>>
    /\ PeekNext(last.jobs)[1].id # Head(queue)

\* The entries of q other than id, in their order in q.
RECURSIVE Others(_, _)
Others(q, id) ==
    IF q = <<>> THEN <<>>
    ELSE LET front == Others(SubSeq(q, 1, Len(q) - 1), id)
         IN IF q[Len(q)] = id THEN front ELSE Append(front, q[Len(q)])

C11_AbsentIdNotFound ==
    [][\A id \in Ids, op \in {"confirm", "status", "stl", "printing", "complete"} :
        (id \notin DOMAIN store /\ Handled(op, id))
        => /\ last'.code = 404
           /\ store' = store
           /\ ttl' = ttl
           /\ queue' = queue]_vars

\* A status query for an id with no job has been answered 404 while another
\* job is in the store and in the queue.
C11_Witness ==
    /\ last.op = "status" /\ last.code = 404
    /\ last.id \notin DOMAIN store
    /\ store # <<>>
    /\ queue # <<>>

\* The jobs that are being processed or printed: the job of every execution
\* that is inside processJob, and the job the printer is printing.
InFlight ==
    {JobOf(e) : e \in {x \in Polls : polls[x].pc \in {"download", "upload", "printing", "start"}}}
    \cup {id \in Ids : printer.state = "printing" /\ printer.file = id}

\* C12: when processJob returns because the upload or the start of the print
\* failed, the job has status failed and its id is not in the queue.
C12_FailureMarksFailed ==
    [][\A e \in Polls :
        (/\ polls'[e].pc = "idle"
         /\ \/ polls[e].pc = "upload"
            \/ polls[e].pc = "start" /\ printer' = printer)
        => /\ store'[JobOf(e)].status = "failed"
           /\ JobOf(e) \notin Range(queue')]_vars

\* C13: at most one job is in flight at a time.
C13_OneJobInFlight == Cardinality(InFlight) <= 1

\* C14: every job that is paid is eventually completed and out of the queue.
C14_PaidEventuallyCompleted ==
    \A id \in Ids :
        (id \in DOMAIN store /\ store[id].status = "paid")
        ~> (id \in DOMAIN store /\ store[id].status = "completed" /\ id \notin Range(queue))

\* C15: every job document in the store carries the 7-day expiry, whatever
\* its status.
C15_SevenDayExpiry == \A id \in DOMAIN store : ttl[id] = ExpirationTtl

\* C16: confirm, printing and complete leave the job's id, prompt, shape,
\* stlData and createdAt as they were, and leave the record of every other
\* job as it was.
C16_TransitionFrame ==
    [][\A id \in Ids, op \in {"confirm", "printing", "complete"} :
        (id \in DOMAIN store /\ Handled(op, id))
        => /\ DOMAIN store' = DOMAIN store
           /\ \A f \in {"id", "prompt", "shape", "stlData", "createdAt"} :
                Has(store'[id], f) /\ store'[id][f] = store[id][f]
           /\ \A k \in DOMAIN store \ {id} : store'[k] = store[k]]_vars

\* A job created at instant 0 has been confirmed, marked printing and
\* completed at instant 1, with another job in the store.
C16_Witness ==
    /\ last.op = "complete" /\ last.code = 200
    /\ now = 1
    /\ store[last.id].createdAt = 0
    /\ Has(store[last.id], "paidAt") /\ store[last.id].paidAt = 1
    /\ store[last.id].shape.type = "cube"
    /\ Len(MeshText(store[last.id].stlData)) = 2 + 7 * 12
    /\ DOMAIN store # {last.id}

\* The number of facets of a mesh text: its facet normal lines.
Facets(text) == Cardinality({i \in DOMAIN text : text[i].text = "facet normal"})

\* The number of lines of a mesh text with the given keyword.
Lines(text, keyword) == Cardinality({i \in DOMAIN text : text[i].text = keyword})

\* Every dimension the shape carries is positive.
PositiveDimensions(shape) ==
    \A f \in DOMAIN shape.dimensions : shape.dimensions[f][1] > 0

\* A valid ShapeDescriptor: one of the five primitives, every dimension it
\* carries positive.
Valid(shape) ==
    /\ shape.type \in {"cube", "cylinder", "sphere", "cone", "torus"}
    /\ PositiveDimensions(shape)

\* C17: for a shape whose dimensions are all positive the mesh has exactly 12
\* triangles if it is a cube, 96 if it is a cylinder and 48 if it is a cone.
C17_TriangleCounts ==
    (mesh.status = "returned" /\ PositiveDimensions(descriptor))
    => /\ descriptor.type = "cube" => Facets(mesh.text) = 12
       /\ descriptor.type = "cylinder" => Facets(mesh.text) = 96
       /\ descriptor.type = "cone" => Facets(mesh.text) = 48

\* The mesh of a cylinder with a positive radius and a positive height has
\* been built.
C17_Witness ==
    /\ mesh.status = "returned"
    /\ descriptor.type = "cylinder"
    /\ DOMAIN descriptor.dimensions = {"radius", "height"}
    /\ PositiveDimensions(descriptor)
    /\ Facets(mesh.text) = 96

\* The keywords of the lines of one facet, in order.
FacetLines == <<"facet normal", "outer loop", "vertex", "vertex", "vertex", "endloop", "endfacet">>

\* What reading a mesh text back gives: the number of its facets, or -1 when
\* the text is not a solid model header, whole facets, and an endsolid model
\* footer.
Reparse(text) ==
    IF /\ Len(text) >= 2
       /\ text[1].text = "solid model"
       /\ text[Len(text)].text = "endsolid model"
       /\ (Len(text) - 2) % 7 = 0
       /\ \A i \in 2..(Len(text) - 1) : text[i].text = FacetLines[((i - 2) % 7) + 1]
    THEN (Len(text) - 2) \div 7
    ELSE -1

\* C18: the mesh text of a valid shape has one solid model header and one
\* endsolid model footer, at least one facet, as many outer loop, endloop and
\* endfacet lines as facet normal lines and three times as many vertex lines,
\* and reads back as that number of facets.
C18_WellFramed ==
    (mesh.status = "returned" /\ Valid(descriptor))
    => /\ Lines(mesh.text, "solid model") = 1
       /\ Lines(mesh.text, "endsolid model") = 1
       /\ Facets(mesh.text) > 0
       /\ Lines(mesh.text, "outer loop") = Facets(mesh.text)
       /\ Lines(mesh.text, "endloop") = Facets(mesh.text)
       /\ Lines(mesh.text, "endfacet") = Facets(mesh.text)
       /\ Lines(mesh.text, "vertex") = 3 * Facets(mesh.text)
       /\ Reparse(mesh.text) = Facets(mesh.text)

\* The mesh of a sphere with a positive radius has been built: its polar
\* rings give one facet for a segment, the other rings two.
C18_Witness ==
    /\ mesh.status = "returned"
    /\ descriptor.type = "sphere"
    /\ DOMAIN descriptor.dimensions = {"radius"}
    /\ Valid(descriptor)
    /\ Reparse(mesh.text) > SphereRings * SphereSegments

\* C19: no mesh is built from a shape that carries a zero or negative value
\* for a dimension its kind requires.
C19_InvalidDimensionRejected ==
    (\E f \in FieldsOf(descriptor.type) \cap DOMAIN descriptor.dimensions :
        descriptor.dimensions[f][1] <= 0)
    => mesh.status # "returned"

Thousandths(x) == (1000 * x[1]) \div x[2]

\* The volume v is certainly no more than the volume w: the same number, or
\* a thousandth of a cm3 lies between them.
NoMore(v, w) == v = w \/ Thousandths(Above(v)) < Thousandths(Below(w))

\* C21: the estimate of a preview is at least 5 minutes, and no shape of a
\* volume that is no more than the previewed one has a greater estimate.
C21_EstimateMonotonic ==
    preview.status = "answered"
    => /\ preview.estimatedMinutes >= 5
       /\ \A s \in Shapes :
            NoMore(VolumeCm3(s), preview.volumeCm3)
            => \A minutes \in EstimatedMinutes(VolumeCm3(s)) : minutes <= preview.estimatedMinutes

\* A cylinder of the default size has been previewed at 147 minutes: the
\* torus of the default size is smaller and takes fewer minutes, though more
\* than 5, and a cube of 1 mm, whose volume times 1.5 rounds to 0, takes 5.
C21_Witness ==
    /\ preview.status = "answered"
    /\ preview.shape = Shape("cylinder", <<>>)
    /\ preview.estimatedMinutes = 147
    /\ NoMore(VolumeCm3(Shape("torus", <<>>)), preview.volumeCm3)
    /\ EstimatedMinutes(VolumeCm3(Shape("torus", <<>>))) = {22}
    /\ EstimatedMinutes(VolumeCm3(Shape("cube", [width |-> Whole(1), height |-> Whole(1), depth |-> Whole(1)]))) = {5}

\* The handler of op for the job id writes the queue in this step.
WritesQueue(op, id) == AtAwait(id, op, "put queue") /\ id \notin DOMAIN requests'

\* C22: when the handler of a confirm writes the queue back, every id that
\* was in the queue is still in it, with the id of the confirmed job: no
\* enqueue of another confirm is lost.
C22_NoEnqueueLost ==
    [][\A id \in Ids :
        WritesQueue("confirm", id) => (Range(queue) \cup {id}) \subseteq Range(queue')]_vars

\* C29: when complete for a job and confirm for another job overlap, the
\* queue that complete writes drops no id but its own, and the queue that
\* confirm writes brings back no id of a completed job.
C29_CompleteConfirmRace ==
    [][\A id \in Ids :
        /\ WritesQueue("complete", id) => (Range(queue) \ {id}) \subseteq Range(queue')
        /\ WritesQueue("confirm", id)
           => \A k \in Range(queue') \ Range(queue) : store[k].status # "completed"]_vars

\* C30: in every state of the store, between the writes of a handler too, a
\* paid job's id is in the queue and a completed job's id is not.
C30_InvariantBetweenWrites ==
    \A id \in DOMAIN store :
        /\ store[id].status = "paid" => id \in Range(queue)
        /\ store[id].status = "completed" => id \notin Range(queue)

\* C23: when the printer cannot be reached for the status queries of an
\* execution of pollQueue, no job document, no queue entry and no state of
\* the printer changes in that step, and the execution returns: it sends no
\* upload, no printing and no start request.
C23_UnreachableSkipsTick ==
    [][(last'.op = "printer" /\ last'.code = 0)
       => /\ store' = store /\ queue' = queue /\ printer' = printer
          /\ \A e \in Polls : polls'[e] = polls[e] \/ polls'[e] = NoPoll]_vars

\* The status queries of an execution that held a paid job of the queue have
\* failed, and the execution has returned.
C23_Witness ==
    /\ last.op = "printer"
    /\ last.code = 0
    /\ \E e \in Polls : polls[e] = NoPoll
    /\ \E id \in Range(queue) : store[id].status = "paid"
    /\ printer.state = "standby"

\* The execution e comes to the await pc in this step.
ComesTo(e, pc) == polls[e].pc # pc /\ polls'[e].pc = pc

\* C24: an execution comes to the printing request only by an upload of its
\* job that succeeded, and to the start request only by the printing request
\* for its job; a printing request and a start request are only sent by an
\* execution that is there.
C24_UploadPrintingStart ==
    [][/\ \A e \in Polls :
            /\ ComesTo(e, "printing")
               => polls[e].pc = "upload" /\ Handled("upload", JobOf(e)) /\ last'.code = 200
            /\ ComesTo(e, "start")
               => polls[e].pc = "printing" /\ Handled("printing", JobOf(e))
       /\ last'.op = "printing"
          => \E e \in Polls : polls[e].pc = "printing" /\ JobOf(e) = last'.id
       /\ last'.op = "start"
          => \E e \in Polls : polls[e].pc = "start" /\ JobOf(e) = last'.id]_vars

\* A print has been started on the file of a job that the cloud has as
\* printing, after an upload for another job had failed.
C24_Witness ==
    /\ last.op = "start"
    /\ last.code = 200
    /\ printer = [state |-> "printing", file |-> last.id]
    /\ store[last.id].status = "printing"
    /\ \E id \in Ids \ {last.id} : store[id].status = "paid"

\* The places of the queue whose job is in the store with status paid.
PaidPlaces == {i \in DOMAIN queue : queue[i] \in DOMAIN store /\ store[queue[i]].status = "paid"}

\* C27: the listing of GET /api/queue is the paid jobs of the queue in the
\* order of the queue, and the job an execution of pollQueue takes from it is
\* the paid job whose place in the queue is the earliest.
C27_EarliestPaidFirst ==
    [][last'.op = "queue"
       => /\ Len(last'.jobs) = Cardinality(PaidPlaces)
          /\ \A m, n \in DOMAIN last'.jobs :
                m < n => \E i, j \in PaidPlaces :
                            i < j /\ queue[i] = last'.jobs[m].id /\ queue[j] = last'.jobs[n].id
          /\ \A e \in Polls :
                polls'[e] # polls[e]
                => /\ polls'[e].pc = "status"
                   /\ \E i \in PaidPlaces :
                        /\ polls'[e].job[1].id = queue[i]
                        /\ \A j \in PaidPlaces : i <= j]_vars

\* An execution holds the job at the head of the queue, which is not the job
\* of the least id, while that job is paid too.
C27_Witness ==
    /\ last.op = "queue"
    /\ \E e \in Polls :
        /\ polls[e].pc = "status"
        /\ JobOf(e) = queue[1]
        /\ \E i \in PaidPlaces : queue[i] < queue[1]

\* The executions that have uploaded the file of the job id and have not
\* returned.
Uploaded(id) == {e \in Polls : polls[e].pc \in {"printing", "start"} /\ JobOf(e) = id}

\* C28: no two executions of pollQueue upload the file of the same job.
C28_NoJobTwice == \A id \in Ids : Cardinality(Uploaded(id)) <= 1

\* The places of a mesh text where a facet begins.
FacetPlaces(text) == {k \in DOMAIN text : text[k].text = "facet normal"}

\* The ring and the segment a facet of a sphere's mesh text belongs to, read
\* from the angles of its normal and of its first vertex.
SphereCell(text, k) == <<text[k].at[2][1].trig[1][2], text[k + 2].at[1][1].trig[2][2]>>

\* The ring and the segment a facet of a torus's mesh text belongs to.
TorusCell(text, k) == <<text[k].at[1][1].trig[1][2], text[k + 2].at[2][1].trig[1][2]>>

\* C25: the mesh of a sphere has 352 triangles, one for each of the 16
\* segments of the two rings at the poles and two for each segment of the 10
\* rings between; the mesh of a torus has 768 triangles, two for each of the
\* 24 segments of each of the 16 rings.
C25_SphereTorusCounts ==
    mesh.status = "returned"
    => /\ descriptor.type = "sphere"
          => /\ Facets(mesh.text) = 352
             /\ \A i \in 0..11, j \in 0..15 :
                  Cardinality({k \in FacetPlaces(mesh.text) : SphereCell(mesh.text, k) = <<i, j>>})
                    = IF i \in {0, 11} THEN 1 ELSE 2
       /\ descriptor.type = "torus"
          => /\ Facets(mesh.text) = 768
             /\ \A i \in 0..15, j \in 0..23 :
                  Cardinality({k \in FacetPlaces(mesh.text) : TorusCell(mesh.text, k) = <<i, j>>}) = 2

\* The mesh of a torus with a radius and a width has been built.
C25_Witness ==
    /\ mesh.status = "returned"
    /\ descriptor.type = "torus"
    /\ DOMAIN descriptor.dimensions = {"radius", "width"}
    /\ Lines(mesh.text, "endfacet") = 2 * TorusRings * TorusSegments

\* The shape with each dimension of its kind that it lacks set to the value
\* defaults has for it.
Filled(shape, defaults) ==
    [shape EXCEPT !.dimensions =
        [f \in FieldsOf(shape.type) |->
            IF f \in DOMAIN shape.dimensions THEN shape.dimensions[f] ELSE Whole(defaults[f])]]

\* 50 mm for a linear dimension and 25 mm for a radius.
FixedDefaults == [width |-> 50, height |-> 50, depth |-> 50, radius |-> 25]

\* The defaults by kind: those of the torus are 30 mm and 10 mm.
DefaultsOf(kind) == IF kind = "torus" THEN [radius |-> 30, width |-> 10] ELSE FixedDefaults

\* C26 as claimed: for every kind, the mesh and the volume of a shape that
\* lacks a dimension are those of the shape with 50 mm for a linear
\* dimension and 25 mm for a radius in its place.
C26_FixedDefaults ==
    /\ mesh.status = "returned" => mesh.text = GenerateSTL(Filled(descriptor, FixedDefaults))
    /\ preview.status = "answered" => preview.volumeCm3 = VolumeCm3(Filled(descriptor, FixedDefaults))

\* C26 as amended: the same for a cube, a cylinder, a sphere and a cone; for
\* a torus the radius that is absent is 30 mm and the width that is absent is
\* 10 mm.
C26_DefaultsByKind ==
    /\ mesh.status = "returned"
       => mesh.text = GenerateSTL(Filled(descriptor, DefaultsOf(descriptor.type)))
    /\ preview.status = "answered"
       => preview.volumeCm3 = VolumeCm3(Filled(descriptor, DefaultsOf(descriptor.type)))

\* The mesh and the volume of a torus with no dimension have been computed:
\* the volume is 2 * PI^2 * 30 * 5^2 / 1000.
C26_Witness ==
    /\ descriptor = Shape("torus", <<>>)
    /\ mesh.status = "returned"
    /\ preview.status = "answered"
    /\ preview.volumeCm3 = Amount(2, <<3, 2>>)
    /\ Facets(mesh.text) > 0

\* C33: a status query, a mesh download and a queue listing leave every job
\* document, the expiry of every job document and the queue as they were.
C33_ReadsChangeNothing ==
    [][last'.op \in {"status", "stl", "queue"}
       => store' = store /\ ttl' = ttl /\ queue' = queue]_vars

\* The queue has been listed while it held the id of a job that is not
\* listed, and the id is still in it.
C33_Witness ==
    /\ last.op = "queue"
    /\ \E id \in Range(queue) : id \in DOMAIN store /\ store[id].status = "printing"
    /\ \E id \in Range(queue) : id \in DOMAIN store /\ store[id].status = "paid"
    /\ Len(last.jobs) < Len(queue)

\* C32: an execution whose mesh download or whose printing request is not
\* answered 200 returns without going on, and a start request is sent for a
\* job only while the job's document has status printing.
C32_StartOnlyIfRecorded ==
    [][/\ \A e \in Polls :
            (/\ polls[e].pc \in {"download", "printing"}
             /\ polls'[e] # polls[e]
             /\ last'.code # 200)
            => polls'[e] = NoPoll
       /\ last'.op = "start" => store[last'.id].status = "printing"]_vars

\* An execution holds the job id.
Picked(id) == \E e \in Polls : polls[e].pc # "idle" /\ JobOf(e) = id

\* C31: every paid job is eventually taken by an execution of pollQueue,
\* whatever becomes of the uploads and the starts of the other jobs.
C31_FailingJobDoesNotBlock ==
    \A id \in Ids :
        (id \in DOMAIN store /\ store[id].status = "paid") ~> Picked(id)

====
